---- MODULE Spec2Model ----
(***************************************************************************)
(* Model of the Board of src/src/board.rs: a width x height occupancy      *)
(* table packed row-major into one vector of Option<BotLocation>, with     *)
(* placement, removal and lookup by coordinate or by index.                *)
(*                                                                         *)
(* width, height and the coordinates are u8 and the index arithmetic is    *)
(* done in u8 before the cast to usize.  What an overflowing u8 operation  *)
(* does depends on the build: with overflow checks (cargo's dev profile)   *)
(* it panics, without them (release profile) it wraps modulo 2^8.  The     *)
(* variable overflow_checks is that build choice; both are explored.       *)
(***************************************************************************)
EXTENDS Integers, Sequences, FiniteSets, TLC

\* ---------------------------------------------------------------- constants
NORTH == 0
EAST == 90
SOUTH == 180
WEST == 270

\* Number of values of a u8 (width, height, x, y are u8).
U8Mod == 2 ^ 8

\* ------------------------------------------------------------------- bounds
\* Small boards: widths 0..MaxW and heights 0..MaxH.
MaxW == 2
MaxH == 2
\* One wide board joins the small ones: 129 columns, so that two rows hold
\* more than 2^8 cells and the u8 products overflow.
Widths == (0 .. MaxW) \cup {129}
Heights == 0 .. MaxH
\* Arguments the caller passes.  127 is the column whose index in row 1 of the
\* wide board is 127 + 129 = 2^8; 1000 is an index beyond every board.
XS == (0 .. MaxW) \cup {127}
YS == 0 .. MaxH
IdxS == (0 .. (MaxW * MaxH)) \cup {127, 1000}
\* The Kilobots the caller starts with, told apart by identity.
Bots == {1, 2}
\* A canonical facing and one outside [0, 360): facing is any u16.
Facings == {SOUTH, SOUTH + WEST}

VARIABLES
    width,            \* Board.width
    height,           \* Board.height
    bots,             \* Board.bots; cell of index i is bots[i + 1]
    overflow_checks,  \* TRUE: u8 overflow panics; FALSE: it wraps
    held,             \* the Kilobots the caller owns (not moved into a call)
    boxes,            \* the BotLocations a remove handed to the caller:
                      \* boxes[bot] is <<facing>>, or <<>> when there is none
    call,             \* the last call: [op, args]
    ret               \* what the last call returned: [status, val]

vars == <<width, height, bots, overflow_checks, held, boxes, call, ret>>

\* ------------------------------------------------------------ value shapes
\* Option<BotLocation>: None is the empty tuple, Some(BotLocation{bot, facing})
\* the pair.  Every returned payload is a tuple as well, so that any two
\* results can be compared.
None == <<>>
BotLocation(bot, facing) == <<bot, facing>>

AlreadyOccupied == "AlreadyOccupied"
NotOccupied == "NotOccupied"
OutOfBounds == "OutOfBounds"

Ok(v) == [status |-> "Ok", val |-> v]
Err(e) == [status |-> e, val |-> <<>>]
Panic == [status |-> "Panic", val |-> <<>>]

IsErr(r) == r.status \in {AlreadyOccupied, NotOccupied, OutOfBounds}

\* The outcome of a call on the board: the value returned, the cells after it
\* and the Kilobots the caller owns after it.
Outcome(r, b, h) == [ret |-> r, bots |-> b, held |-> h]

\* Vec::get(index): the cell, or "absent" past the end.
HasCell(index) == index < Len(bots)
Cell(index) == bots[index + 1]

\* --------------------------------------------------------------- new_board
\* width * height is a u8 product: it panics under overflow checks and wraps
\* otherwise; that many None cells are pushed.
new_board(w, h, checks) ==
    IF checks /\ w * h >= U8Mod
    THEN [ret |-> Panic, bots |-> <<>>]
    ELSE [ret |-> Ok(<<>>), bots |-> [i \in 1 .. ((w * h) % U8Mod) |-> None]]

\* ---------------------------------------------------- get_index_from_coord
\* Variant: the bound tests admit x = width and y = height.
get_index_from_coord_inclusive(x, y) ==
    IF x <= width /\ y <= height
    THEN IF overflow_checks
            /\ (y * width >= U8Mod \/ x + ((y * width) % U8Mod) >= U8Mod)
         THEN Panic
         ELSE Ok(<<(x + ((y * width) % U8Mod)) % U8Mod>>)
    ELSE Err(OutOfBounds)

\* (x + (y * self.width)) as usize, computed in u8.
get_index_from_coord(x, y) ==
    IF x < width /\ y < height
    THEN IF overflow_checks
            /\ (y * width >= U8Mod \/ x + ((y * width) % U8Mod) >= U8Mod)
         THEN Panic
         ELSE Ok(<<(x + ((y * width) % U8Mod)) % U8Mod>>)
    ELSE Err(OutOfBounds)

\* -------------------------------------------------------- add_bot_location
\* Variant: the occupied branch stores the new BotLocation before it reports
\* AlreadyOccupied.
add_bot_location_overwrites(bot, x, y, facing) ==
    IF x < width /\ y < height
    THEN LET r == get_index_from_coord(x, y) IN
         IF r.status # "Ok" THEN Outcome(r, bots, held \ {bot})
         ELSE LET desired_index == r.val[1] IN
              IF ~HasCell(desired_index)
              THEN Outcome(Panic, bots, held \ {bot})
              ELSE Outcome(IF Cell(desired_index) # None
                           THEN Err(AlreadyOccupied) ELSE Ok(<<>>),
                           [bots EXCEPT ![desired_index + 1] =
                                            BotLocation(bot, facing)],
                           held \ {bot})
    ELSE Outcome(Err(OutOfBounds), bots, held \ {bot})

\* Variant: the Kilobot is copied into the cell and the caller keeps it.
add_bot_location_keeps_bot(bot, x, y, facing) ==
    IF x < width /\ y < height
    THEN LET r == get_index_from_coord(x, y) IN
         IF r.status # "Ok" THEN Outcome(r, bots, held)
         ELSE LET desired_index == r.val[1] IN
              IF ~HasCell(desired_index)
              THEN Outcome(Panic, bots, held)
              ELSE IF Cell(desired_index) # None
              THEN Outcome(Err(AlreadyOccupied), bots, held)
              ELSE Outcome(Ok(<<>>),
                           [bots EXCEPT ![desired_index + 1] =
                                            BotLocation(bot, facing)],
                           held)
    ELSE Outcome(Err(OutOfBounds), bots, held)

\* The Kilobot is moved into the call: it ends in the cell or is dropped.
add_bot_location(bot, x, y, facing) ==
    IF x < width /\ y < height
    THEN LET r == get_index_from_coord(x, y) IN
         IF r.status # "Ok" THEN Outcome(r, bots, held \ {bot})
         ELSE LET desired_index == r.val[1] IN
              IF ~HasCell(desired_index)
              THEN Outcome(Panic, bots, held \ {bot})   \* get_mut(..).unwrap()
              ELSE IF Cell(desired_index) # None
              THEN Outcome(Err(AlreadyOccupied), bots, held \ {bot})
              ELSE Outcome(Ok(<<>>),
                           [bots EXCEPT ![desired_index + 1] =
                                            BotLocation(bot, facing)],
                           held \ {bot})
    ELSE Outcome(Err(OutOfBounds), bots, held \ {bot})

\* -------------------------------------------- remove_bot_location_at_index
\* Variant: the occupant is returned but the cell is not replaced by None.
remove_bot_location_at_index_copy(index) ==
    IF index >= 0 /\ index < Len(bots)
    THEN LET bot == Cell(index) IN
         IF bot = None
         THEN Outcome(Panic, bots, held)
         ELSE Outcome(Ok(bot), bots, held \cup {bot[1]})
    ELSE Outcome(Err(OutOfBounds), bots, held)

\* Variant: the cell is taken out of the vector (Vec::remove) and an empty
\* one pushed at the end, so every later cell moves down by one.
remove_bot_location_at_index_shifts(index) ==
    IF index >= 0 /\ index < Len(bots)
    THEN LET bot == Cell(index)
             rest == [i \in 1 .. Len(bots) |->
                        IF i <= index THEN bots[i]
                        ELSE IF i < Len(bots) THEN bots[i + 1] ELSE None]
         IN IF bot = None
            THEN Outcome(Panic, bots, held)
            ELSE Outcome(Ok(bot), rest, held \cup {bot[1]})
    ELSE Outcome(Err(OutOfBounds), bots, held)

\* self.bots.get(index) is Some(cell reference) for every index below the
\* length, whether the cell is occupied or not; the cell is then replaced by
\* None and its old content unwrapped, which panics on an empty cell.
remove_bot_location_at_index(index) ==
    IF index >= 0 /\ index < Len(bots)
    THEN IF HasCell(index)
         THEN LET bot == Cell(index) IN
              IF bot = None
              THEN Outcome(Panic, [bots EXCEPT ![index + 1] = None], held)
              ELSE Outcome(Ok(bot), [bots EXCEPT ![index + 1] = None],
                           held \cup {bot[1]})
         ELSE Outcome(Err(NotOccupied), bots, held)
    ELSE Outcome(Err(OutOfBounds), bots, held)

\* -------------------------------------------- remove_bot_location_at_coord
remove_bot_location_at_coord(x, y) ==
    LET r == get_index_from_coord(x, y) IN
    IF r.status # "Ok" THEN Outcome(r, bots, held)
    ELSE remove_bot_location_at_index(r.val[1])

\* -------------------------------------------------------- get_bot_at_index
\* Variant: the bound test admits index = len, and the unwrap of the absent
\* cell panics.
get_bot_at_index_inclusive(index) ==
    IF index <= Len(bots)
    THEN IF ~HasCell(index) THEN Outcome(Panic, bots, held)
         ELSE LET this_location == Cell(index) IN
              IF this_location # None
              THEN Outcome(Ok(<<this_location[1]>>), bots, held)
              ELSE Outcome(Err(NotOccupied), bots, held)
    ELSE Outcome(Err(OutOfBounds), bots, held)

\* Variant: the lookup takes the BotLocation out of the cell to reach its
\* Kilobot.
get_bot_at_index_takes(index) ==
    IF index < Len(bots)
    THEN LET this_location == Cell(index) IN
         IF this_location # None
         THEN Outcome(Ok(<<this_location[1]>>),
                      [bots EXCEPT ![index + 1] = None], held)
         ELSE Outcome(Err(NotOccupied), bots, held)
    ELSE Outcome(Err(OutOfBounds), bots, held)

get_bot_at_index(index) ==
    IF index < Len(bots)
    THEN LET this_location == Cell(index) IN
         IF this_location # None
         THEN Outcome(Ok(<<this_location[1]>>), bots, held)
         ELSE Outcome(Err(NotOccupied), bots, held)
    ELSE Outcome(Err(OutOfBounds), bots, held)

\* -------------------------------------------------------- get_bot_at_coord
get_bot_at_coord(x, y) ==
    LET r == get_index_from_coord(x, y) IN
    IF r.status # "Ok" THEN Outcome(r, bots, held)
    ELSE get_bot_at_index(r.val[1])

\* ------------------------------------------------- fmt::Display for Board
\* The scan of index 0 .. len - 1 adds one for every cell that is_some().
num_bots == Cardinality({index \in 0 .. (Len(bots) - 1) : Cell(index) # None})

\* Variant: the scan counts every cell, not only those that is_some().
fmt_counts_cells == Outcome(Ok(<<width, height, Len(bots)>>), bots, held)

\* "(width:{}, height:{}, number of bots:{})": the three numbers written.
fmt == Outcome(Ok(<<width, height, num_bots>>), bots, held)

\* ------------------------------------------------------------- print_board
\* What is printed for column i of row j: the uid of the bot, or the
\* coordinate pair; the other three are the ways the loop body panics.
print_space(i, j) ==
    LET r == get_index_from_coord(i, j) IN
    IF r.status = "Panic" THEN <<"overflow">>
    ELSE IF r.status # "Ok" THEN <<"unimplemented">>
    ELSE IF ~HasCell(r.val[1]) THEN <<"unwrap">>
    ELSE IF Cell(r.val[1]) # None THEN <<"uid", Cell(r.val[1])[1]>>
    ELSE <<"coord", i, j>>

\* for j in 0..height { for i in 0..width { print space } print "\n\n" }:
\* piece k of the output is column (k-1) % (width+1) of row (k-1) \div
\* (width+1), the piece after the last column being the row separator.
print_board ==
    IF \E j \in 0 .. (height - 1), i \in 0 .. (width - 1) :
          print_space(i, j)[1] \in {"overflow", "unimplemented", "unwrap"}
    THEN Outcome(Panic, bots, held)
    ELSE Outcome(Ok([k \in 1 .. (height * (width + 1)) |->
                        LET i == (k - 1) % (width + 1)
                            j == (k - 1) \div (width + 1)
                        IN IF i = width THEN <<"row">>
                           ELSE print_space(i, j)]),
                 bots, held)

\* ------------------------------------------------------------------ actions
\* A panic ends the program: no call follows it.
Running == ret.status # "Panic"

\* A remove that succeeds hands its BotLocation to the caller; the Kilobot of
\* a BotLocation the caller holds leaves it when it is passed to a place.
BoxesAfter(op, args, r) ==
    IF op \in {"remove_bot_location_at_coord", "remove_bot_location_at_index"}
       /\ r.status = "Ok"
    THEN [boxes EXCEPT ![r.val[1]] = <<r.val[2]>>]
    ELSE IF op = "add_bot_location"
    THEN [boxes EXCEPT ![args[1]] = <<>>]
    ELSE boxes

Do(op, args, out) ==
    /\ Running
    /\ call' = [op |-> op, args |-> args]
    /\ ret' = out.ret
    /\ bots' = out.bots
    /\ held' = out.held
    /\ boxes' = BoxesAfter(op, args, out.ret)
    /\ UNCHANGED <<width, height, overflow_checks>>

Init ==
    /\ overflow_checks \in BOOLEAN
    /\ width \in Widths
    /\ height \in Heights
    /\ bots = new_board(width, height, overflow_checks).bots
    /\ ret = new_board(width, height, overflow_checks).ret
    /\ held = Bots
    /\ boxes = [bot \in Bots |-> <<>>]
    /\ call = [op |-> "new_board", args |-> <<width, height>>]

GetIndexFromCoord ==
    \E x \in XS, y \in YS :
        Do("get_index_from_coord", <<x, y>>,
           Outcome(get_index_from_coord(x, y), bots, held))

AddBotLocation ==
    \E bot \in held, x \in XS, y \in YS, facing \in Facings :
        Do("add_bot_location", <<bot, x, y, facing>>,
           add_bot_location(bot, x, y, facing))

RemoveBotLocationAtCoord ==
    \E x \in XS, y \in YS :
        Do("remove_bot_location_at_coord", <<x, y>>,
           remove_bot_location_at_coord(x, y))

RemoveBotLocationAtIndex ==
    \E index \in IdxS :
        Do("remove_bot_location_at_index", <<index>>,
           remove_bot_location_at_index(index))

GetBotAtCoord ==
    \E x \in XS, y \in YS :
        Do("get_bot_at_coord", <<x, y>>, get_bot_at_coord(x, y))

GetBotAtIndex ==
    \E index \in IdxS :
        Do("get_bot_at_index", <<index>>, get_bot_at_index(index))

Fmt == Do("fmt", <<>>, fmt)

PrintBoard == Do("print_board", <<>>, print_board)

\* BotLocation::set_facing on a BotLocation the caller holds: the board hands
\* out no mutable BotLocation, so only a removed one can be reached.
SetFacing ==
    \E bot \in Bots, new_facing \in Facings :
        /\ Running
        /\ boxes[bot] # <<>>
        /\ boxes' = [boxes EXCEPT ![bot] = <<new_facing>>]
        /\ call' = [op |-> "set_facing", args |-> <<bot, new_facing>>]
        /\ ret' = Ok(<<>>)
        /\ UNCHANGED <<width, height, bots, overflow_checks, held>>

Next ==
    \/ GetIndexFromCoord
    \/ AddBotLocation
    \/ RemoveBotLocationAtCoord
    \/ RemoveBotLocationAtIndex
    \/ GetBotAtCoord
    \/ GetBotAtIndex
    \/ Fmt
    \/ PrintBoard
    \/ SetFacing

Spec == Init /\ [][Next]_vars

\* ------------------------------------------------------ reading the record
\* The coordinates of the last call, for the calls that take coordinates.
CoordOps == {"get_index_from_coord", "add_bot_location",
             "remove_bot_location_at_coord", "get_bot_at_coord"}
IndexOps == {"remove_bot_location_at_index", "get_bot_at_index"}
RemoveOps == {"remove_bot_location_at_coord", "remove_bot_location_at_index"}
BoardOps == CoordOps \cup IndexOps

ArgX(c) == IF c.op = "add_bot_location" THEN c.args[2] ELSE c.args[1]
ArgY(c) == IF c.op = "add_bot_location" THEN c.args[3] ELSE c.args[2]
ArgIndex(c) == c.args[1]

\* The board was built: new_board returned.
Built == ~(call.op = "new_board" /\ ret.status = "Panic")

\* What the cells b hold for coordinate (x, y), through the board's own
\* addressing (width and height never change).
CellIn(b, x, y) ==
    LET r == get_index_from_coord(x, y) IN
    IF r.status = "Ok" /\ r.val[1] < Len(b) THEN b[r.val[1] + 1] ELSE None
CellAt(x, y) == CellIn(bots, x, y)

InBounds(x, y) == x < width /\ y < height

\* ------------------------------------------------------------------ claims

\* C1: removing, by coordinate or by index, at a location that is in bounds
\* and holds no occupant returns NotOccupied and leaves the grid unchanged.
C1_RemoveEmptyIsNotOccupied ==
    [][ /\ ( /\ call'.op = "remove_bot_location_at_index"
             /\ ArgIndex(call') < width * height
             /\ (HasCell(ArgIndex(call')) => Cell(ArgIndex(call')) = None) )
           => (ret' = Err(NotOccupied) /\ bots' = bots)
        /\ ( /\ call'.op = "remove_bot_location_at_coord"
             /\ InBounds(ArgX(call'), ArgY(call'))
             /\ CellAt(ArgX(call'), ArgY(call')) = None )
           => (ret' = Err(NotOccupied) /\ bots' = bots)
      ]_vars

\* C2: no call of place, remove, get or coordinate_to_index on a built grid
\* panics: each one returns success or one of the three error kinds.
C2_NoCallPanics ==
    call.op \in BoardOps => (ret.status = "Ok" \/ IsErr(ret))

\* C3: for x < width and y < height, coordinate_to_index(x, y) returns the
\* integer x + y*width, and over the valid coordinates the mapping is a
\* bijection onto 0 .. width*height - 1.
C3_IndexIsRowMajorBijection ==
    Built =>
      /\ (call.op = "get_index_from_coord"
             /\ InBounds(ArgX(call), ArgY(call)))
            => ret = Ok(<<ArgX(call) + ArgY(call) * width>>)
      /\ LET valid == (0 .. (width - 1)) \X (0 .. (height - 1))
             image == {get_index_from_coord(c[1], c[2]) : c \in valid}
         IN /\ image = {Ok(<<i>>) : i \in 0 .. (width * height - 1)}
            /\ Cardinality(image) = Cardinality(valid)

\* C4: the number of cells of a built grid is width*height, after
\* construction and after every call.
C4_CellCountIsProduct ==
    Built => Len(bots) = width * height

\* The Kilobots stored in the grid.
OnBoard(b) == {b[i][1] : i \in {j \in 1 .. Len(b) : b[j] # None}}

\* The last call placed `bot` at (x, y) with `facing` and succeeded.
Placed(c, r) == c.op = "add_bot_location" /\ r = Ok(<<>>)
\* The last call removed an occupant and returned it.
Removed(c, r) == c.op \in RemoveOps /\ r.status = "Ok"

\* C5: after a place at (x, y) has succeeded, a call that is not a
\* successful removal at that location leaves the cell with the agent and the
\* facing placed; and a place at a location that holds an occupant fails with
\* AlreadyOccupied, stores its agent nowhere and changes no cell.
C5_SecondPlaceIsAlreadyOccupied ==
    [][ /\ ( /\ Placed(call, ret)
             /\ ~( /\ call'.op = "remove_bot_location_at_coord"
                   /\ call'.args = <<ArgX(call), ArgY(call)>>
                   /\ ret'.status = "Ok" )
             /\ ~( /\ call'.op = "remove_bot_location_at_index"
                   /\ call'.args = <<ArgX(call) + ArgY(call) * width>>
                   /\ ret'.status = "Ok" ) )
           => CellIn(bots', ArgX(call), ArgY(call))
                 = BotLocation(call.args[1], call.args[4])
        /\ ( /\ call'.op = "add_bot_location"
             /\ InBounds(ArgX(call'), ArgY(call'))
             /\ CellAt(ArgX(call'), ArgY(call')) # None )
           => /\ ret' = Err(AlreadyOccupied)
              /\ call'.args[1] \notin OnBoard(bots')
              /\ bots' = bots
      ]_vars

\* C6: a place or a remove that returns an error leaves width, height and
\* every cell as they were.
C6_ErrorLeavesGridUnchanged ==
    [][ ( /\ call'.op \in {"add_bot_location"} \cup RemoveOps
          /\ IsErr(ret') )
        => UNCHANGED <<width, height, bots>>
      ]_vars

\* C6 witness: a place on an occupied cell was refused and the cell holds
\* the other Kilobot.
C6_Witness ==
    /\ call.op = "add_bot_location"
    /\ ret = Err(AlreadyOccupied)
    /\ CellAt(ArgX(call), ArgY(call)) # None
    /\ CellAt(ArgX(call), ArgY(call))[1] # call.args[1]

\* C7: a coordinate call with x >= width or y >= height, and an index call
\* with index >= width*height, returns OutOfBounds whatever the cells hold.
C7_BeyondExtentIsOutOfBounds ==
    /\ (call.op \in CoordOps /\ ~InBounds(ArgX(call), ArgY(call)))
          => ret = Err(OutOfBounds)
    /\ (call.op \in IndexOps /\ ArgIndex(call) >= width * height)
          => ret = Err(OutOfBounds)

\* C7 witness: an index call at exactly width*height on a grid that holds an
\* occupant returned OutOfBounds.
C7_Witness ==
    /\ call.op = "get_bot_at_index"
    /\ width * height > 0
    /\ ArgIndex(call) = width * height
    /\ OnBoard(bots) # {}
    /\ ret = Err(OutOfBounds)

\* C8: a remove, by coordinate or by index, at a cell that holds an occupant
\* returns that occupant (agent and facing) and empties the cell; a get at
\* that location issued next fails with NotOccupied, and a place issued next
\* at that location succeeds.
C8_RemoveTakesOccupant ==
    [][ /\ ( /\ call'.op = "remove_bot_location_at_index"
             /\ HasCell(ArgIndex(call'))
             /\ Cell(ArgIndex(call')) # None )
           => /\ ret' = Ok(Cell(ArgIndex(call')))
              /\ bots' = [bots EXCEPT ![ArgIndex(call') + 1] = None]
        /\ ( /\ call'.op = "remove_bot_location_at_coord"
             /\ InBounds(ArgX(call'), ArgY(call'))
             /\ CellAt(ArgX(call'), ArgY(call')) # None )
           => /\ ret' = Ok(CellAt(ArgX(call'), ArgY(call')))
              /\ CellIn(bots', ArgX(call'), ArgY(call')) = None
        /\ ( /\ Removed(call, ret)
             /\ \/ /\ call.op = "remove_bot_location_at_coord"
                   /\ call'.op = "get_bot_at_coord"
                \/ /\ call.op = "remove_bot_location_at_index"
                   /\ call'.op = "get_bot_at_index"
             /\ call'.args = call.args )
           => ret' = Err(NotOccupied)
        /\ ( /\ Removed(call, ret)
             /\ call'.op = "add_bot_location"
             /\ InBounds(ArgX(call'), ArgY(call'))
             /\ \/ /\ call.op = "remove_bot_location_at_coord"
                   /\ call.args = <<ArgX(call'), ArgY(call')>>
                \/ /\ call.op = "remove_bot_location_at_index"
                   /\ call.args = <<ArgX(call') + ArgY(call') * width>> )
           => /\ ret' = Ok(<<>>)
              /\ CellIn(bots', ArgX(call'), ArgY(call'))
                    = BotLocation(call'.args[1], call'.args[4])
      ]_vars

\* C8 witness: a remove by coordinate returned an occupant with the facing
\* outside [0, 360), its cell is empty and the caller owns the Kilobot again.
C8_Witness ==
    /\ call.op = "remove_bot_location_at_coord"
    /\ ret.status = "Ok"
    /\ ret.val[2] = SOUTH + WEST
    /\ ret.val[1] \in held
    /\ CellAt(ArgX(call), ArgY(call)) = None
    /\ OnBoard(bots) # {}

\* C9: a place at a valid coordinate whose cell is empty succeeds, and a get
\* at (x, y), or at index x + y*width, issued next returns the agent placed.
C9_PlaceThenGetReturnsAgent ==
    [][ /\ ( /\ call'.op = "add_bot_location"
             /\ InBounds(ArgX(call'), ArgY(call'))
             /\ CellAt(ArgX(call'), ArgY(call')) = None )
           => ret' = Ok(<<>>)
        /\ ( /\ Placed(call, ret)
             /\ \/ /\ call'.op = "get_bot_at_coord"
                   /\ call'.args = <<ArgX(call), ArgY(call)>>
                \/ /\ call'.op = "get_bot_at_index"
                   /\ call'.args = <<ArgX(call) + ArgY(call) * width>> )
           => ret' = Ok(<<call.args[1]>>)
      ]_vars

\* C10: a place at a valid coordinate whose cell is empty succeeds and writes
\* that one empty cell; a remove at (x, y) issued next returns the agent
\* placed with the facing as given and empties that cell again, so that the
\* grid is as it was before the place.
C10_PlaceRemoveRoundTrip ==
    [][ /\ ( /\ call'.op = "add_bot_location"
             /\ InBounds(ArgX(call'), ArgY(call'))
             /\ CellAt(ArgX(call'), ArgY(call')) = None )
           => /\ ret' = Ok(<<>>)
              /\ \E i \in 1 .. Len(bots) :
                    /\ bots[i] = None
                    /\ bots' = [bots EXCEPT
                                  ![i] = BotLocation(call'.args[1],
                                                     call'.args[4])]
        /\ ( /\ Placed(call, ret)
             /\ call'.op = "remove_bot_location_at_coord"
             /\ call'.args = <<ArgX(call), ArgY(call)>> )
           => /\ ret' = Ok(BotLocation(call.args[1], call.args[4]))
              /\ \E i \in 1 .. Len(bots) :
                    /\ bots[i] = BotLocation(call.args[1], call.args[4])
                    /\ bots' = [bots EXCEPT ![i] = None]
      ]_vars

\* The cells of b (as positions of the sequence) that hold Kilobot `bot`.
CellsOf(b, bot) == {i \in 1 .. Len(b) : b[i] # None /\ b[i][1] = bot}

\* The index of the cell that call c addresses, through the board's own
\* mapping for a call by coordinate; -1 when the mapping gives none.
Target(c) ==
    IF c.op \in IndexOps THEN ArgIndex(c)
    ELSE LET r == get_index_from_coord(ArgX(c), ArgY(c)) IN
         IF r.status = "Ok" THEN r.val[1] ELSE 0 - 1

\* C11: every Kilobot is in at most one cell, and one the caller owns is in
\* no cell; a successful place puts its Kilobot in exactly one cell, a
\* successful remove leaves its Kilobot in no cell and with the caller; a
\* cell goes from empty to occupied only by a successful place on it (and
\* then holds the agent and facing placed), from occupied to empty only by a
\* successful remove on it (which returns its occupant), and changes in no
\* other way.
C11_OccupantLifecycle ==
    /\ [](\A bot \in Bots :
            /\ Cardinality(CellsOf(bots, bot)) <= 1
            /\ bot \in held => CellsOf(bots, bot) = {})
    /\ [][ /\ Len(bots') = Len(bots)
           /\ bots' # bots =>
                /\ \A i \in 1 .. Len(bots) :
                     bots'[i] # bots[i] =>
                       \/ /\ bots[i] = None
                          /\ Placed(call', ret')
                          /\ Target(call') = i - 1
                          /\ bots'[i] = BotLocation(call'.args[1],
                                                    call'.args[4])
                       \/ /\ bots[i] # None
                          /\ bots'[i] = None
                          /\ Removed(call', ret')
                          /\ Target(call') = i - 1
                          /\ ret'.val = bots[i]
           /\ Placed(call', ret') =>
                Cardinality(CellsOf(bots', call'.args[1])) = 1
           /\ Removed(call', ret') =>
                /\ CellsOf(bots', ret'.val[1]) = {}
                /\ ret'.val[1] \in held'
         ]_vars

\* C11 witness: a remove handed one Kilobot back to the caller, who owns it
\* and holds its BotLocation, while the other Kilobot is in a cell.
C11_Witness ==
    /\ Removed(call, ret)
    /\ ret.val[1] \in held
    /\ boxes[ret.val[1]] = <<ret.val[2]>>
    /\ CellsOf(bots, ret.val[1]) = {}
    /\ \E bot \in Bots \ {ret.val[1]} : Cardinality(CellsOf(bots, bot)) = 1

\* C12: a grid built with width 0 or height 0 is built without panic and has
\* no cells, and every call on it by coordinate or by index, of lookup,
\* place, remove or get, returns OutOfBounds.
C12_ZeroSizedGridIsOutOfBounds ==
    (width = 0 \/ height = 0) =>
      /\ Built
      /\ Len(bots) = 0
      /\ call.op \in BoardOps => ret = Err(OutOfBounds)

\* C12 witness: on a grid with columns but no rows, a get at (0, 0), whose x
\* is below the width, returned OutOfBounds.
C12_Witness ==
    /\ width > 0
    /\ height = 0
    /\ call = [op |-> "get_bot_at_coord", args |-> <<0, 0>>]
    /\ ret = Err(OutOfBounds)

\* C13: right after new(width, height) the grid has width*height cells, all
\* empty: a get issued first at a valid coordinate, or at a valid index,
\* returns NotOccupied, and the summary issued first reports 0 occupied
\* cells.
C13_NewGridIsEmpty ==
    [][ (call.op = "new_board" /\ Built) =>
          /\ Len(bots) = width * height
          /\ \A i \in 1 .. Len(bots) : bots[i] = None
          /\ ( /\ call'.op = "get_bot_at_coord"
               /\ InBounds(ArgX(call'), ArgY(call')) )
             => ret' = Err(NotOccupied)
          /\ ( /\ call'.op = "get_bot_at_index"
               /\ ArgIndex(call') < width * height )
             => ret' = Err(NotOccupied)
          /\ call'.op = "fmt" => ret' = Ok(<<width, height, 0>>)
      ]_vars

\* The number of cells of b that hold an occupant.
OccupiedCells(b) == Cardinality({i \in 1 .. Len(b) : b[i] # None})

\* C14: the count starts at 0, goes up by one with every successful place,
\* down by one with every successful remove and is changed by no other call
\* (so it is the successful places minus the successful removes); the
\* summary reports that count, the number of occupied cells, with the width
\* and the height given to new, which never change.
C14_SummaryCountsOccupiedCells ==
    [][ /\ call.op = "new_board" =>
             /\ OccupiedCells(bots) = 0
             /\ <<width, height>> = call.args
        /\ <<width', height'>> = <<width, height>>
        /\ bots' = bots => ~Placed(call', ret') /\ ~Removed(call', ret')
        /\ bots' # bots =>
             OccupiedCells(bots') = OccupiedCells(bots)
                + (IF Placed(call', ret') THEN 1 ELSE 0)
                - (IF Removed(call', ret') THEN 1 ELSE 0)
        /\ call'.op = "fmt" =>
             ret' = Ok(<<width, height, OccupiedCells(bots')>>)
      ]_vars

\* C14 witness: after places and a remove the summary reported one occupied
\* cell on a grid of more than one cell.
C14_Witness ==
    /\ call.op = "fmt"
    /\ ret = Ok(<<width, height, 1>>)
    /\ Len(bots) > 1
    /\ \E bot \in Bots : boxes[bot] # <<>>

GetOps == {"get_bot_at_coord", "get_bot_at_index"}

\* C15: a get, by coordinate or by index, successful or not, leaves width,
\* height and every cell (agent and facing) as they were and moves no
\* ownership; the same get issued again right after it returns the same
\* result.
C15_GetIsReadOnly ==
    [][ call'.op \in GetOps =>
          /\ UNCHANGED <<width, height, bots, held, boxes>>
          /\ call' = call => ret' = ret
      ]_vars

\* C15 witness: a get by index returned the Kilobot of a cell that still
\* holds it, with its facing.
C15_Witness ==
    /\ call.op = "get_bot_at_index"
    /\ ret.status = "Ok"
    /\ HasCell(ArgIndex(call))
    /\ Cell(ArgIndex(call)) = BotLocation(ret.val[1], SOUTH + WEST)

\* C17: in every state and for every (x, y): in bounds, the remove and the
\* get by coordinate return what the remove and the get at index x + y*width
\* return and leave the same cells; out of bounds they return OutOfBounds and
\* touch nothing; and a place that succeeds writes the cell of index
\* x + y*width, and no other.
C17_CoordFormsAreIndexForms ==
    Running =>
      \A x \in XS, y \in YS :
        /\ InBounds(x, y) =>
             /\ remove_bot_location_at_coord(x, y)
                   = remove_bot_location_at_index(x + y * width)
             /\ get_bot_at_coord(x, y) = get_bot_at_index(x + y * width)
        /\ ~InBounds(x, y) =>
             /\ remove_bot_location_at_coord(x, y)
                   = Outcome(Err(OutOfBounds), bots, held)
             /\ get_bot_at_coord(x, y)
                   = Outcome(Err(OutOfBounds), bots, held)
        /\ \A bot \in held, facing \in Facings :
             LET out == add_bot_location(bot, x, y, facing) IN
             out.ret = Ok(<<>>) =>
               /\ HasCell(x + y * width)
               /\ out.bots = [bots EXCEPT ![x + y * width + 1] =
                                             BotLocation(bot, facing)]

\* C18: a successful place or remove changes exactly one cell, the one its
\* argument addresses (through the board's mapping for a coordinate), and
\* every other cell keeps its content; no call changes width, height or the
\* number of cells; no call takes an occupant from one cell to another or
\* changes the facing of an occupant that stays on the grid; set_facing acts
\* only on a BotLocation that a remove handed out, never on a cell.
C18_OneCellChanges ==
    [][ /\ width' = width
        /\ height' = height
        /\ Len(bots') = Len(bots)
        /\ (Placed(call', ret') \/ Removed(call', ret')) =>
             LET t == Target(call') IN
             /\ t >= 0
             /\ t < Len(bots)
             /\ bots'[t + 1] # bots[t + 1]
             /\ bots' = [bots EXCEPT ![t + 1] = bots'[t + 1]]
        /\ bots' # bots =>
             /\ \A i \in 1 .. Len(bots) :
                  (bots[i] # None /\ bots'[i] # None) => bots'[i] = bots[i]
             /\ \A bot \in Bots :
                  (CellsOf(bots, bot) # {} /\ CellsOf(bots', bot) # {})
                     => CellsOf(bots', bot) = CellsOf(bots, bot)
        /\ call'.op = "set_facing" =>
             /\ bots' = bots
             /\ CellsOf(bots, call'.args[1]) = {}
      ]_vars

\* C18 witness: a place succeeded on one cell while the other Kilobot sits,
\* with the facing it was placed with, in another cell.
C18_Witness ==
    /\ Placed(call, ret)
    /\ Target(call) >= 0
    /\ HasCell(Target(call))
    /\ Cell(Target(call)) = BotLocation(call.args[1], call.args[4])
    /\ \E i \in 0 .. (Len(bots) - 1) :
         /\ i # Target(call)
         /\ Cell(i) # None
         /\ Cell(i)[1] # call.args[1]

\* What print_board is to write for the cell at column x of row y: the uid of
\* its occupant, or the pair (x, y) when it is empty.
RenderedCell(x, y) ==
    IF HasCell(x + y * width) /\ Cell(x + y * width) # None
    THEN <<"uid", Cell(x + y * width)[1]>>
    ELSE <<"coord", x, y>>

\* The whole rendering: rows y = 0 .. height-1 in order, in each row the
\* cells x = 0 .. width-1 in order, then the row separator.
Rendered ==
    [k \in 1 .. (height * (width + 1)) |->
       LET x == (k - 1) % (width + 1)
           y == (k - 1) \div (width + 1)
       IN IF x = width THEN <<"row">> ELSE RenderedCell(x, y)]

\* C19: on every grid print_board completes, without reaching
\* unimplemented!() or any other panic; it writes every cell once, row by
\* row from y = 0 and left to right within a row, the occupant's uid for an
\* occupied cell and (x, y) for an empty one, with a separator after each
\* row; and it leaves the grid unchanged.
C19_RenderCompletesRowMajor ==
    [][ call'.op = "print_board" =>
          /\ ret' = Ok(Rendered)
          /\ UNCHANGED <<width, height, bots, held, boxes>>
      ]_vars

====
